---- MODULE Spec2Model ----
(***************************************************************************)
(* A model of the hybrid video-post recommender:                           *)
(*   utils/api_helpers.py   APIClient.fetch_paginated_data                 *)
(*   utils/preprocessors.py DataPreprocessor.preprocess_posts              *)
(*   utils/recommenders.py  RecommendationEngine                           *)
(*   app.py                 the two routes that call the engine            *)
(*                                                                         *)
(* Numbers.  Real-valued scores are kept as integers: a TF-IDF cosine is   *)
(* 0 or 1 for the one-token texts modelled here, the hybrid score is kept  *)
(* times ten (weights 6 and 4 for 0.6 and 0.4), MAE is the fraction        *)
(* <<sum |a - p|, n>> and RMSE is kept squared, <<sum (a - p)^2, n>>;      *)
(* float("inf") is the fraction <<1, 0>>.                                  *)
(***************************************************************************)
EXTENDS Integers, Sequences, FiniteSets, TLC

(***************************************************************************)
(* Bounds of the model.  TOP_N_RECOMMENDATIONS, PAGE_SIZE and              *)
(* max_pages_to_fetch are the program's 10, 1000 and 1000 scaled down so   *)
(* that truncation and the page cap happen within a few posts and pages.   *)
(***************************************************************************)
NumPosts == 3
MaxViews == 1
MaxRatings == 3
MaxGroundTruth == 2
TOP_N_RECOMMENDATIONS == 2
PAGE_SIZE == 2
max_pages_to_fetch == 3
MaxTotalPages == 4

(* Program constants. *)
MAX_K == 50
W_CONTENT == 6
W_COLLABORATIVE == 4

VARIABLES
    \* ---- APIClient.fetch_paginated_data: one call ----
    fpc,              \* "loop" (at the while test), "returned", "raised"
    page,             \* the page to request next
    total_pages,      \* Infinity until a response declares it
    combined_data,    \* the records collected so far
    requested,        \* history: the page numbers requested, in order
    served,           \* history: every successful response [n, records]
    \* ---- the process that builds and serves one RecommendationEngine ----
    pc,               \* "start", "interactions", "content", "collab", "ready", "failed"
    error,            \* why construction failed ("" while it has not)
    api,              \* what the remote service holds: posts, views, likes, ratings
    hash,             \* Python's per-process hash() of each username
    sortBuild,        \* the tie order of the build's quicksort (a rank per row)
    svds,             \* what the build's truncated SVD returns, per user and post
    posts_df,
    user_interactions,
    content_similarity_matrix,
    user_ids,
    post_ids,
    user_factors,
    post_factors,
    result            \* the outcome of the last get_recommendations / evaluate

fetchVars == <<fpc, page, total_pages, combined_data, requested, served>>
envVars == <<api, hash, sortBuild, svds>>
engineState == <<posts_df, user_interactions, content_similarity_matrix,
                 user_ids, post_ids, user_factors, post_factors>>
vars == <<fetchVars, pc, error, envVars, engineState, result>>

(***************************************************************************)
(* Helpers                                                                 *)
(***************************************************************************)
Min(a, b) == IF a <= b THEN a ELSE b

Abs(a) == IF a < 0 THEN -a ELSE a

Range(s) == {s[i] : i \in DOMAIN s}

RECURSIVE SumSeq(_)
SumSeq(s) == IF s = <<>> THEN 0 ELSE Head(s) + SumSeq(Tail(s))

SeqsUpTo(S, n) == UNION {[1..m -> S] : m \in 0..n}

Perms(n) == {f \in [1..n -> 1..n] : \A i, j \in 1..n : f[i] = f[j] => i = j}

\* list(...) of a pandas Index built from a set of integers: ascending.
SortedSeq(S) ==
    CHOOSE s \in [1..Cardinality(S) -> S] :
        \A a, b \in 1..Cardinality(S) : a < b => s[a] < s[b]

\* list.index(x): the first position of x.
IndexOf(s, x) == CHOOSE i \in DOMAIN s : s[i] = x /\ \A j \in 1..(i - 1) : s[j] # x

(***************************************************************************)
(* APIClient.fetch_paginated_data                                          *)
(***************************************************************************)
\* float("inf")
Infinity == -1

\* min(max_pages_to_fetch, total_pages)
PageLimit(tp) == IF tp = Infinity THEN max_pages_to_fetch ELSE Min(max_pages_to_fetch, tp)

\* while page <= min(max_pages_to_fetch, total_pages)
LoopCondition(p, tp) == p <= PageLimit(tp)

\* The records a server puts on page p when it answers with n of them.
PageRecords(p, n) == [k \in 1..n |-> <<p, k>>]

\* data.get("total_pages", total_pages): a response may leave it out.
DeclaredTotals == {Infinity} \cup 0..MaxTotalPages

\* page += 1
NextPage_Skip(p) == p + 2

NextPage(p) == p + 1

\* combined_data.extend(posts)
Extend(data, posts) == data \o posts

\* One iteration whose request succeeds (200, status "success").
FetchPage ==
    /\ fpc = "loop"
    /\ LoopCondition(page, total_pages)
    /\ \E n \in 0..(PAGE_SIZE + 1), tp \in DeclaredTotals :
        LET posts == PageRecords(page, n) IN
        /\ requested' = Append(requested, page)
        /\ served' = Append(served, [n |-> n, total_pages |-> tp, posts |-> posts])
        /\ total_pages' = IF tp = Infinity THEN total_pages ELSE tp
        /\ combined_data' = Extend(combined_data, posts)
        /\ IF Len(posts) < PAGE_SIZE
           THEN fpc' = "returned" /\ page' = page
           ELSE fpc' = "loop" /\ page' = NextPage(page)
    /\ UNCHANGED <<pc, error, envVars, engineState, result>>

\* One iteration whose request fails: a status code other than 200, a body
\* whose status is not "success", or a requests.RequestException.
FetchFails ==
    /\ fpc = "loop"
    /\ LoopCondition(page, total_pages)
    /\ requested' = Append(requested, page)
    /\ fpc' = "raised"
    /\ UNCHANGED <<page, total_pages, combined_data, served>>
    /\ UNCHANGED <<pc, error, envVars, engineState, result>>

\* The while test fails: return combined_data.
FetchReturns ==
    /\ fpc = "loop"
    /\ ~LoopCondition(page, total_pages)
    /\ fpc' = "returned"
    /\ UNCHANGED <<page, total_pages, combined_data, requested, served>>
    /\ UNCHANGED <<pc, error, envVars, engineState, result>>

FetchStart ==
    /\ fpc = "loop"
    /\ page = 1
    /\ total_pages = Infinity
    /\ combined_data = <<>>
    /\ requested = <<>>
    /\ served = <<>>

(***************************************************************************)
(* The data the remote service holds, and the build                        *)
(***************************************************************************)
\* A post's "category" field: a dict {"id": c} is its c (0, 1, ...); JSON
\* null is NoneVal; a record without the key is NaN in the DataFrame.
NoneVal == -1

MissingCategory == -2

CategoryIds == {0, 1}

CategoryVals == {MissingCategory, NoneVal} \cup CategoryIds

\* post_summary + " " + title, as its tokens that are not stop words: the
\* model keeps texts of at most one such token ("" is none).
Words == {"", "cats", "dogs"}

PostId(i) == 10 * i

PostIds == {PostId(i) : i \in 1..NumPosts}

RatingUsers == {1, 5}

RatedPosts == {PostId(1), PostId(2)}

RatingVals == {40, 80}

RatingRows == [user_id : RatingUsers, post_id : RatedPosts, rating_percent : RatingVals]

Usernames == {"alice", "bob"}

HashVals == (-1)..2

FactorVals == {0, 1}

Moods == {"happy"}

BasePosts ==
    [i \in 1..NumPosts |->
        [id |-> PostId(i),
         category |-> IF i % 2 = 1 THEN 1 ELSE NoneVal,
         title |-> IF i % 3 = 2 THEN "dogs" ELSE "cats"]]

BaseRatings ==
    << [user_id |-> 1, post_id |-> PostId(1), rating_percent |-> 80],
       [user_id |-> 5, post_id |-> PostId(2), rating_percent |-> 40] >>

BaseApi ==
    [posts |-> BasePosts, views |-> <<PostId(1)>>, likes |-> <<PostId(1)>>,
     ratings |-> BaseRatings]

BaseHash == [u \in Usernames |-> IF u = "alice" THEN 1 ELSE 0]

BaseSortBuild == [i \in 1..NumPosts |-> i]

BaseSvds ==
    [u |-> [x \in RatingUsers |-> 1],
     vt |-> [p \in RatedPosts |-> IF p = PostId(1) THEN 1 ELSE 0]]

\* The inputs of a run: the base input varied along one axis at a time.
ApiInputs ==
    {[BaseApi EXCEPT !.posts = [i \in 1..NumPosts |-> [BasePosts[i] EXCEPT !.category = c[i]]]] :
        c \in [1..NumPosts -> CategoryVals]}
    \cup
    {[BaseApi EXCEPT !.posts = [i \in 1..NumPosts |-> [BasePosts[i] EXCEPT !.title = t[i]]]] :
        t \in [1..NumPosts -> Words]}
    \cup
    {[BaseApi EXCEPT !.views = v, !.likes = l] :
        v \in SeqsUpTo(PostIds, MaxViews), l \in SeqsUpTo(PostIds, MaxViews)}
    \cup
    {[BaseApi EXCEPT !.ratings = r] : r \in SeqsUpTo(RatingRows, MaxRatings)}

SvdsOutcomes == [u : [RatingUsers -> FactorVals], vt : [RatedPosts -> FactorVals]]

EnvInputs ==
    {<<a, BaseHash, BaseSortBuild, BaseSvds>> : a \in ApiInputs}
    \cup {<<BaseApi, h, BaseSortBuild, BaseSvds>> : h \in [Usernames -> HashVals]}
    \cup {<<BaseApi, BaseHash, s, BaseSvds>> : s \in Perms(NumPosts)}
    \cup {<<BaseApi, BaseHash, BaseSortBuild, o>> : o \in SvdsOutcomes}

(***************************************************************************)
(* DataPreprocessor.preprocess_posts                                       *)
(***************************************************************************)
\* df["id"].map(df_x.groupby("post_id").size()), then fillna(0)
GroupSize(records, id) == Cardinality({k \in DOMAIN records : records[k] = id})

PreprocessPosts(a) ==
    [i \in DOMAIN a.posts |->
        [id |-> a.posts[i].id,
         category |-> a.posts[i].category,
         title |-> a.posts[i].title,
         view_count |-> GroupSize(a.views, a.posts[i].id),
         like_count |-> GroupSize(a.likes, a.posts[i].id)]]

\* groupby("post_id") of a DataFrame built from no records, and
\* df_posts["id"] of one built from no posts, raise KeyError.
PreprocessRaises(a) ==
    a.posts = <<>> \/ a.views = <<>> \/ a.likes = <<>> \/ a.ratings = <<>>

(***************************************************************************)
(* RecommendationEngine: construction                                      *)
(***************************************************************************)
\* TfidfVectorizer raises ValueError on an empty vocabulary.
EmptyVocabulary(df) == \A i \in DOMAIN df : df[i].title = ""

\* cosine_similarity of the TF-IDF vectors: a one-token text is the unit
\* vector of its token, a text without tokens is the zero vector.
ContentSimilarity(df) ==
    [i \in DOMAIN df |-> [j \in DOMAIN df |->
        IF df[i].title # "" /\ df[i].title = df[j].title THEN 1 ELSE 0]]

PivotUsers(inter) == SortedSeq({inter[k].user_id : k \in DOMAIN inter})

PivotPosts(inter) == SortedSeq({inter[k].post_id : k \in DOMAIN inter})

\* aggfunc="first", then fillna(0)
PivotCell_Last(inter, u, p) ==
    LET ks == {k \in DOMAIN inter : inter[k].user_id = u /\ inter[k].post_id = p}
    IN IF ks = {} THEN 0
       ELSE inter[CHOOSE k \in ks : \A m \in ks : k >= m].rating_percent

PivotCell(inter, u, p) ==
    LET ks == {k \in DOMAIN inter : inter[k].user_id = u /\ inter[k].post_id = p}
    IN IF ks = {} THEN 0
       ELSE inter[CHOOSE k \in ks : \A m \in ks : k <= m].rating_percent

UserPostMatrix(inter) ==
    [i \in DOMAIN PivotUsers(inter) |-> [j \in DOMAIN PivotPosts(inter) |->
        PivotCell(inter, PivotUsers(inter)[i], PivotPosts(inter)[j])]]

\* k=min(50, min(user_post_matrix_sparse.shape) - 1)
SvdsRank_NoMinusOne(nu, np) == Min(MAX_K, Min(nu, np))

SvdsRank(nu, np) == Min(MAX_K, Min(nu, np) - 1)

\* scipy's svds raises ValueError unless 0 < k < min(A.shape).
SvdsRaises(k, nu, np) == ~(0 < k /\ k < Min(nu, np))

preprocess_posts ==
    /\ pc = "start"
    /\ IF PreprocessRaises(api)
       THEN pc' = "failed" /\ error' = "preprocess_posts: KeyError" /\ posts_df' = posts_df
       ELSE pc' = "interactions" /\ error' = error /\ posts_df' = PreprocessPosts(api)
    /\ UNCHANGED <<fetchVars, envVars, result>>
    /\ UNCHANGED <<user_interactions, content_similarity_matrix, user_ids, post_ids,
                   user_factors, post_factors>>

\* fetch_paginated_data raises (preprocess_posts or _load_user_interactions).
IngestionFailure ==
    /\ pc \in {"start", "interactions"}
    /\ pc' = "failed"
    /\ error' = "fetch_paginated_data: Exception"
    /\ UNCHANGED <<fetchVars, envVars, engineState, result>>

_load_user_interactions ==
    /\ pc = "interactions"
    /\ user_interactions' = api.ratings
    /\ pc' = "content"
    /\ UNCHANGED <<fetchVars, envVars, error, result>>
    /\ UNCHANGED <<posts_df, content_similarity_matrix, user_ids, post_ids,
                   user_factors, post_factors>>

_prepare_content_similarity ==
    /\ pc = "content"
    /\ IF EmptyVocabulary(posts_df)
       THEN /\ pc' = "failed"
            /\ error' = "_prepare_content_similarity: ValueError"
            /\ content_similarity_matrix' = content_similarity_matrix
       ELSE /\ pc' = "collab"
            /\ error' = error
            /\ content_similarity_matrix' = ContentSimilarity(posts_df)
    /\ UNCHANGED <<fetchVars, envVars, result>>
    /\ UNCHANGED <<posts_df, user_interactions, user_ids, post_ids,
                   user_factors, post_factors>>

_prepare_collaborative_model ==
    /\ pc = "collab"
    /\ IF user_interactions = <<>>
       THEN /\ pc' = "failed"
            /\ error' = "_prepare_collaborative_model: KeyError"
            /\ UNCHANGED <<user_ids, post_ids, user_factors, post_factors>>
       ELSE LET us == PivotUsers(user_interactions)
                ps == PivotPosts(user_interactions)
                k == SvdsRank(Len(us), Len(ps))
            IN /\ user_ids' = us
               /\ post_ids' = ps
               /\ IF SvdsRaises(k, Len(us), Len(ps))
                  THEN /\ pc' = "failed"
                       /\ error' = "_prepare_collaborative_model: svds ValueError"
                       /\ UNCHANGED <<user_factors, post_factors>>
                  ELSE /\ pc' = "ready"
                       /\ error' = error
                       /\ user_factors' = [i \in DOMAIN us |-> [f \in 1..k |-> svds.u[us[i]]]]
                       /\ post_factors' = [j \in DOMAIN ps |-> [f \in 1..k |-> svds.vt[ps[j]]]]
    /\ UNCHANGED <<fetchVars, envVars, result>>
    /\ UNCHANGED <<posts_df, user_interactions, content_similarity_matrix>>

(***************************************************************************)
(* RecommendationEngine: serving                                           *)
(***************************************************************************)
\* A pandas Series: its index labels and its values, row by row.
Series(index, values) == [index |-> index, values |-> values]

\* Series.reindex(labels, fill_value=fill) of a Series with unique labels.
Reindex(ser, labels, fill) ==
    [i \in DOMAIN labels |->
        IF labels[i] \in Range(ser.index)
        THEN ser.values[IndexOf(ser.index, labels[i])]
        ELSE fill]

\* self.posts_df["id"]
PostsId == [i \in DOMAIN posts_df |-> posts_df[i].id]

Dot(a, b) == SumSeq([f \in DOMAIN a |-> a[f] * b[f]])

\* hash(username) % len(self.user_ids)
_get_user_id(username) == hash[username] % Len(user_ids)

\* np.dot(self.post_factors, self.user_factors[user_idx]) under index=self.post_ids
KnownUserScores(user_id) ==
    LET user_idx == IndexOf(user_ids, user_id)
    IN Series(post_ids, [j \in DOMAIN post_ids |-> Dot(post_factors[j], user_factors[user_idx])])

_collaborative_score_AsPosition(user_id) ==
    LET user_idx == (user_id % Len(user_ids)) + 1
    IN Series(post_ids, [j \in DOMAIN post_ids |-> Dot(post_factors[j], user_factors[user_idx])])

_collaborative_score(user_id) ==
    IF user_id \notin Range(user_ids)
    THEN Series(PostsId, [i \in DOMAIN posts_df |-> 0])
    ELSE KnownUserScores(user_id)

\* self.content_similarity_matrix.dot(view_count + like_count)
ContentScores ==
    [i \in DOMAIN posts_df |->
        SumSeq([j \in DOMAIN posts_df |->
            content_similarity_matrix[i][j] * (posts_df[j].view_count + posts_df[j].like_count)])]

\* 0.6 * content_scores + 0.4 * collaborative_scores.reindex(posts_df["id"], fill_value=0)
HybridScores(collaborative_scores) ==
    LET collab == Reindex(collaborative_scores, PostsId, 0)
    IN [i \in DOMAIN posts_df |-> W_CONTENT * ContentScores[i] + W_COLLABORATIVE * collab[i]]

\* "if category_id:" is Python truth: None and 0 are false.
FilterApplies(category_id) == category_id # NoneVal /\ category_id # 0

\* lambda x: x.get("id") == category_id if x else False
\* NaN is true in Python and has no .get: AttributeError.
CategoryFilterRaises == \E i \in DOMAIN posts_df : posts_df[i].category = MissingCategory

CategoryMatches(x, category_id) == IF x = NoneVal THEN FALSE ELSE x = category_id

\* hybrid_scores[category_filter.values]: the rows kept, in table order.
KeptRows(category_id) ==
    IF FilterApplies(category_id)
    THEN SortedSeq({i \in DOMAIN posts_df : CategoryMatches(posts_df[i].category, category_id)})
    ELSE [i \in DOMAIN posts_df |-> i]

\* Series.sort_values(ascending=False): kind="quicksort" is not stable, so
\* rows of equal score come out in the build's order, rank.
SortValues_Ascending(rows, scores, rank) ==
    LET Before(a, b) == scores[a] < scores[b] \/ (scores[a] = scores[b] /\ rank[a] < rank[b])
        Pos(a) == 1 + Cardinality({b \in Range(rows) : Before(b, a)})
    IN [k \in DOMAIN rows |-> CHOOSE a \in Range(rows) : Pos(a) = k]

SortValues(rows, scores, rank) ==
    LET Before(a, b) == scores[a] > scores[b] \/ (scores[a] = scores[b] /\ rank[a] < rank[b])
        Pos(a) == 1 + Cardinality({b \in Range(rows) : Before(b, a)})
    IN [k \in DOMAIN rows |-> CHOOSE a \in Range(rows) : Pos(a) = k]

\* .head(n)
HeadN(s, n) == SubSeq(s, 1, Min(n, Len(s)))

\* self as a record of its attributes.
Self ==
    [posts_df |-> posts_df, user_interactions |-> user_interactions,
     content_similarity_matrix |-> content_similarity_matrix,
     user_ids |-> user_ids, post_ids |-> post_ids,
     user_factors |-> user_factors, post_factors |-> post_factors]

\* What a handler leaves in self: neither handler assigns an attribute or
\* changes one in place.
SelfAfterCall_SortedInPlace ==
    [Self EXCEPT !.posts_df = [i \in DOMAIN posts_df |-> posts_df[(Len(posts_df) + 1) - i]]]

SelfAfterCall == Self

StoreSelf(after) ==
    /\ posts_df' = after.posts_df
    /\ user_interactions' = after.user_interactions
    /\ content_similarity_matrix' = after.content_similarity_matrix
    /\ user_ids' = after.user_ids
    /\ post_ids' = after.post_ids
    /\ user_factors' = after.user_factors
    /\ post_factors' = after.post_factors

Inf == <<1, 0>>

NoGroundTruth == [given |-> FALSE, rows |-> <<>>]

NoSeries == Series(<<>>, <<>>)

NoResult ==
    [op |-> "none", status |-> "", username |-> "", category_id |-> NoneVal,
     user_id |-> NoneVal, collaborative_scores |-> NoSeries, hybrid_scores |-> <<>>,
     kept |-> <<>>, recommendations |-> <<>>, ground_truth |-> NoGroundTruth,
     actuals |-> <<>>, predictions |-> <<>>, MAE |-> Inf, RMSE |-> Inf]

GetRecommendations(username, category_id, mood) ==
    LET user_id == _get_user_id(username)
        collaborative_scores == _collaborative_score(user_id)
        hybrid_scores == HybridScores(collaborative_scores)
        call == [NoResult EXCEPT !.op = "get_recommendations", !.username = username,
                                 !.category_id = category_id, !.user_id = user_id,
                                 !.collaborative_scores = collaborative_scores,
                                 !.hybrid_scores = hybrid_scores]
    IN IF FilterApplies(category_id) /\ CategoryFilterRaises
       THEN [call EXCEPT !.status = "AttributeError"]
       ELSE LET kept == KeptRows(category_id)
                sorted == SortValues(kept, hybrid_scores, sortBuild)
                top == HeadN(sorted, TOP_N_RECOMMENDATIONS)
            IN [call EXCEPT !.status = "ok", !.kept = kept,
                            !.recommendations = [k \in DOMAIN top |-> PostsId[top[k]]]]

\* ground_truth["user_id"].unique(): in order of first appearance.
RECURSIVE Unique(_)
Unique(s) ==
    IF s = <<>> THEN <<>>
    ELSE LET front == Unique(SubSeq(s, 1, Len(s) - 1))
         IN IF s[Len(s)] \in Range(front) THEN front ELSE Append(front, s[Len(s)])

\* if user_id not in self.user_ids: continue
Skipped_Never(user_id) == FALSE

Skipped(user_id) == user_id \notin Range(user_ids)

\* The loop over the users: predictions.extend(...), actuals.extend(...).
RECURSIVE EvaluateLoop(_, _)
EvaluateLoop(users, rows) ==
    IF users = <<>> THEN [actuals |-> <<>>, predictions |-> <<>>]
    ELSE LET user_id == Head(users)
             rest == EvaluateLoop(Tail(users), rows)
         IN IF Skipped(user_id) THEN rest
            ELSE LET actual_ratings == SelectSeq(rows, LAMBDA r : r.user_id = user_id)
                     matching_preds ==
                         Reindex(_collaborative_score(user_id),
                                 [k \in DOMAIN actual_ratings |-> actual_ratings[k].post_id], 0)
                 IN [actuals |->
                         [k \in DOMAIN actual_ratings |-> actual_ratings[k].rating_percent]
                             \o rest.actuals,
                     predictions |-> matching_preds \o rest.predictions]

\* mean_absolute_error, as the fraction <<sum, n>>
MeanAbsoluteError(actuals, predictions) ==
    <<SumSeq([k \in DOMAIN actuals |-> Abs(actuals[k] - predictions[k])]), Len(actuals)>>

\* mean_squared_error, as the fraction <<sum, n>> (RMSE is its square root)
MeanSquaredError(actuals, predictions) ==
    <<SumSeq([k \in DOMAIN actuals |->
        (actuals[k] - predictions[k]) * (actuals[k] - predictions[k])]), Len(actuals)>>

Evaluate(ground_truth) ==
    LET rows == IF ground_truth.given THEN ground_truth.rows ELSE user_interactions
        call == [NoResult EXCEPT !.op = "evaluate", !.status = "ok",
                                 !.ground_truth = ground_truth]
    IN IF rows = <<>> THEN call
       ELSE LET users == Unique([k \in DOMAIN rows |-> rows[k].user_id])
                pairs == EvaluateLoop(users, rows)
            IN IF pairs.predictions # <<>> /\ pairs.actuals # <<>>
               THEN [call EXCEPT !.actuals = pairs.actuals,
                                 !.predictions = pairs.predictions,
                                 !.MAE = MeanAbsoluteError(pairs.actuals, pairs.predictions),
                                 !.RMSE = MeanSquaredError(pairs.actuals, pairs.predictions)]
               ELSE call

\* A ground truth handed to evaluate: a user the model may know with a post
\* nobody rated, and a user nobody knows.
GroundTruthRows ==
    { [user_id |-> 1, post_id |-> PostId(NumPosts), rating_percent |-> 40],
      [user_id |-> 9, post_id |-> PostId(1), rating_percent |-> 40] }

GroundTruths ==
    {NoGroundTruth} \cup
    {[given |-> TRUE, rows |-> r] : r \in SeqsUpTo(GroundTruthRows, MaxGroundTruth)}

CategoryIdArgs == {NoneVal} \cup CategoryIds

get_recommendations ==
    /\ pc = "ready"
    /\ \E username \in Usernames, category_id \in CategoryIdArgs, mood \in Moods :
        result' = GetRecommendations(username, category_id, mood)
    /\ StoreSelf(SelfAfterCall)
    /\ UNCHANGED <<fetchVars, envVars, pc, error>>

evaluate ==
    /\ pc = "ready"
    /\ \E ground_truth \in GroundTruths : result' = Evaluate(ground_truth)
    /\ StoreSelf(SelfAfterCall)
    /\ UNCHANGED <<fetchVars, envVars, pc, error>>

(***************************************************************************)
(* Specifications                                                          *)
(***************************************************************************)
EngineStart ==
    /\ pc = "start"
    /\ error = ""
    /\ posts_df = <<>>
    /\ user_interactions = <<>>
    /\ content_similarity_matrix = <<>>
    /\ user_ids = <<>>
    /\ post_ids = <<>>
    /\ user_factors = <<>>
    /\ post_factors = <<>>
    /\ result = NoResult

\* The process that imports app.py: it builds the engine, then serves.
Init ==
    /\ FetchStart
    /\ EngineStart
    /\ \E e \in EnvInputs :
        api = e[1] /\ hash = e[2] /\ sortBuild = e[3] /\ svds = e[4]

Next ==
    \/ preprocess_posts
    \/ IngestionFailure
    \/ _load_user_interactions
    \/ _prepare_content_similarity
    \/ _prepare_collaborative_model
    \/ get_recommendations
    \/ evaluate

Spec == Init /\ [][Next]_vars

\* One call of fetch_paginated_data against any server.
FetchInit ==
    /\ FetchStart
    /\ EngineStart
    /\ api = BaseApi
    /\ hash = BaseHash
    /\ sortBuild = BaseSortBuild
    /\ svds = BaseSvds

FetchNext ==
    \/ FetchPage
    \/ FetchFails
    \/ FetchReturns

\* Every request is answered or fails, and the loop runs on.
SpecFetch == FetchInit /\ [][FetchNext]_vars /\ WF_vars(FetchNext)

(***************************************************************************)
(* Properties                                                              *)
(***************************************************************************)
IsRecommendation == result.op = "get_recommendations"

Returned == IsRecommendation /\ result.status = "ok"

\* The row of the post feature table a returned post id names.
RowOf(id) == IndexOf(PostsId, id)

RecRow(k) == RowOf(result.recommendations[k])

RecScore(k) == result.hybrid_scores[RecRow(k)]

\* The rows that pass the category filter the caller asked for.
PassingRows(category_id) ==
    IF category_id = NoneVal THEN DOMAIN posts_df
    ELSE {i \in DOMAIN posts_df : posts_df[i].category = category_id}

Descending == \A a, b \in DOMAIN result.recommendations : a < b => RecScore(a) >= RecScore(b)

TiesInTableOrder ==
    \A a, b \in DOMAIN result.recommendations :
        (a < b /\ RecScore(a) = RecScore(b)) => RecRow(a) < RecRow(b)

NoBetterLeftOut ==
    \A i \in PassingRows(result.category_id) :
        (PostsId[i] \notin Range(result.recommendations)) =>
            \A k \in DOMAIN result.recommendations : result.hybrid_scores[i] <= RecScore(k)

\* C1: when a category_id is given (any integer, 0 included), every returned
\* post id is of a post whose category identifier equals it, and no post
\* without a category is returned.
C1_OnlyTheCategory ==
    (Returned /\ result.category_id # NoneVal) =>
        \A k \in DOMAIN result.recommendations :
            posts_df[RecRow(k)].category = result.category_id

\* C2 as stated: the list is in descending hybrid score, posts of equal
\* score are in the order of the post feature table, and no post left out
\* that passes the filter scores strictly higher than a listed one.
C2_StableRanking == Returned => (Descending /\ TiesInTableOrder /\ NoBetterLeftOut)

\* C2 as amended: the list is in descending hybrid score and no post left
\* out that passes the filter scores strictly higher than a listed one; the
\* order of posts of equal score is the sort's, not the table's.
C2_Ranking == Returned => (Descending /\ NoBetterLeftOut)

\* C2's case: a list cut at TOP_N whose scores differ.
C2_Witness ==
    /\ Returned
    /\ Len(result.recommendations) = TOP_N_RECOMMENDATIONS
    /\ Len(result.kept) > TOP_N_RECOMMENDATIONS
    /\ RecScore(1) > RecScore(Len(result.recommendations))

\* C3: every call returns, without error, post ids of the post feature
\* table, at most TOP_N of them and at most as many as pass the category
\* filter (so none when no post has the given category).
C3_BoundedList ==
    IsRecommendation =>
        /\ result.status = "ok"
        /\ Range(result.recommendations) \subseteq Range(PostsId)
        /\ Len(result.recommendations) <= TOP_N_RECOMMENDATIONS
        /\ Len(result.recommendations) <= Cardinality(PassingRows(result.category_id))

\* C4: for a user_id that is not among the rated users the collaborative
\* score is 0 for every post id of the post feature table, and every
\* post's hybrid score is 0.6 times its content score, the sum over posts j
\* of similarity(i, j) * (view_count(j) + like_count(j)).
C4_UnknownUserContentOnly ==
    (IsRecommendation /\ result.user_id \notin Range(user_ids)) =>
        /\ result.collaborative_scores.index = PostsId
        /\ \A i \in DOMAIN posts_df : result.collaborative_scores.values[i] = 0
        /\ \A i \in DOMAIN posts_df :
            result.hybrid_scores[i] =
                6 * SumSeq([j \in DOMAIN posts_df |->
                        content_similarity_matrix[i][j] * posts_df[j].view_count
                        + content_similarity_matrix[i][j] * posts_df[j].like_count])

\* C4's case: an unknown user, a post with likes and a known user whose
\* scores are not all zero.
C4_Witness ==
    /\ IsRecommendation
    /\ result.user_id \notin Range(user_ids)
    /\ \E i \in DOMAIN posts_df : posts_df[i].like_count > 0 /\ result.hybrid_scores[i] > 0
    /\ \E u \in Range(user_ids) : \E v \in Range(_collaborative_score(u).values) : v # 0

\* C5: every username resolves to a user_id that is one of the rated users
\* the collaborative model knows.
C5_ResolvesToKnownUser == IsRecommendation => result.user_id \in Range(user_ids)

RatedUserSet == {api.ratings[k].user_id : k \in DOMAIN api.ratings}

RatedPostSet == {api.ratings[k].post_id : k \in DOMAIN api.ratings}

InsufficientData == Cardinality(RatedUserSet) < 2 \/ Cardinality(RatedPostSet) < 2

\* C6: with fewer than 2 rated users or fewer than 2 rated posts (no
\* ratings included) no engine becomes ready and no factor matrix is made;
\* otherwise the collaborative model does not fail, and a ready engine has
\* k = min(50, min(#users, #posts) - 1) >= 1 factors per user and per post.
C6_FactorizationNeedsData ==
    /\ InsufficientData => (pc # "ready" /\ user_factors = <<>> /\ post_factors = <<>>)
    /\ (pc = "failed" /\ ~InsufficientData) =>
            error \notin {"_prepare_collaborative_model: svds ValueError",
                          "_prepare_collaborative_model: KeyError"}
    /\ pc = "ready" =>
        LET k == Min(50, Min(Cardinality(RatedUserSet), Cardinality(RatedPostSet)) - 1)
        IN /\ k >= 1
           /\ Len(user_factors) = Cardinality(RatedUserSet)
           /\ Len(post_factors) = Cardinality(RatedPostSet)
           /\ \A i \in DOMAIN user_factors : Len(user_factors[i]) = k
           /\ \A j \in DOMAIN post_factors : Len(post_factors[j]) = k

\* C6's case: ratings of two posts by a single user stop the construction
\* in the factorization.
C6_Witness ==
    /\ pc = "failed"
    /\ error = "_prepare_collaborative_model: svds ValueError"
    /\ Cardinality(RatedUserSet) = 1
    /\ Cardinality(RatedPostSet) = 2

IsEvaluation == result.op = "evaluate"

EvaluatedRows ==
    IF result.ground_truth.given THEN result.ground_truth.rows ELSE user_interactions

KnownRows == SelectSeq(EvaluatedRows, LAMBDA r : r.user_id \in Range(user_ids))

\* C7: evaluate does not raise; the rows of users the collaborative model
\* does not know add no pair; with no pair (an empty ground truth included)
\* the result is {MAE: +inf, RMSE: +inf}; otherwise both are finite and
\* not negative.
C7_EvaluateSentinel ==
    IsEvaluation =>
        /\ result.status = "ok"
        /\ Len(result.actuals) = Len(KnownRows)
        /\ Len(result.predictions) = Len(KnownRows)
        /\ KnownRows = <<>> => (result.MAE = Inf /\ result.RMSE = Inf)
        /\ KnownRows # <<>> =>
            /\ result.MAE[2] > 0 /\ result.MAE[1] >= 0
            /\ result.RMSE[2] > 0 /\ result.RMSE[1] >= 0

\* C7's case: a ground truth with a row of an unknown user and a row of a
\* known one.
C7_Witness ==
    /\ IsEvaluation
    /\ result.ground_truth.given
    /\ Len(KnownRows) = 1
    /\ Len(EvaluatedRows) = 2

\* The total the loop tests after i responses: the last one declared.
RECURSIVE TotalAfter(_)
TotalAfter(i) ==
    IF i = 0 THEN Infinity
    ELSE IF served[i].total_pages # Infinity THEN served[i].total_pages
    ELSE TotalAfter(i - 1)

RECURSIVE Concatenation(_)
Concatenation(i) == IF i = 0 THEN <<>> ELSE Concatenation(i - 1) \o served[i].posts

ShortPage(i) == served[i].n < PAGE_SIZE

TotalReached(i) == TotalAfter(i) # Infinity /\ i >= TotalAfter(i)

PagesInOrder == requested = [i \in 1..Len(requested) |-> i]

\* A further page is requested only after a full page, below the total.
NoRequestPastTheEnd ==
    \A i \in 1..Len(served) : i < Len(requested) => (~ShortPage(i) /\ ~TotalReached(i))

FetchSafety ==
    /\ PagesInOrder
    /\ NoRequestPastTheEnd
    /\ Len(requested) <= max_pages_to_fetch
    /\ fpc = "returned" =>
        /\ served # <<>>
        /\ \/ ShortPage(Len(served))
           \/ TotalReached(Len(served))
           \/ Len(served) = max_pages_to_fetch
        /\ combined_data = Concatenation(Len(served))

RatedPairs ==
    {<<user_interactions[k].user_id, user_interactions[k].post_id>> :
        k \in DOMAIN user_interactions}

\* C9 as stated: in evaluate()'s default ground truth a (user_id, post_id)
\* pair rated several times adds one (actual, predicted) pair, whose actual
\* value is the first rating_percent observed, the value of the fitted matrix.
C9_DuplicatesCountOnce ==
    (IsEvaluation /\ ~result.ground_truth.given) =>
        /\ Len(result.actuals) = Cardinality(RatedPairs)
        /\ \A k \in DOMAIN result.actuals :
            \E pr \in RatedPairs :
                result.actuals[k] = PivotCell(user_interactions, pr[1], pr[2])

RowsOfPair(pr) ==
    {k \in DOMAIN user_interactions :
        user_interactions[k].user_id = pr[1] /\ user_interactions[k].post_id = pr[2]}

Occurrences(s, v) == Cardinality({k \in DOMAIN s : s[k] = v})

\* C9 as amended: the user x post matrix the collaborative model is fitted
\* on has one cell per rated (user_id, post_id) pair, holding the first
\* rating_percent observed for it (0 for a pair never rated); evaluate()'s
\* default ground truth is the stored rating rows, each of which, a
\* duplicate included, adds a pair of its own with its own rating_percent.
C9_FirstInMatrixEveryRowInMetrics ==
    /\ pc = "ready" =>
        LET matrix == UserPostMatrix(user_interactions)
        IN /\ Len(matrix) = Len(user_ids)
           /\ \A i \in DOMAIN user_ids : \A j \in DOMAIN post_ids :
                LET ks == RowsOfPair(<<user_ids[i], post_ids[j]>>)
                IN \/ ks = {} /\ matrix[i][j] = 0
                   \/ \E k \in ks :
                        /\ \A m \in ks : k <= m
                        /\ matrix[i][j] = user_interactions[k].rating_percent
    /\ (IsEvaluation /\ ~result.ground_truth.given) =>
        /\ Len(result.actuals) = Len(user_interactions)
        /\ Len(result.predictions) = Len(user_interactions)
        /\ \A v \in RatingVals :
            Occurrences(result.actuals, v) =
                Occurrences([k \in DOMAIN user_interactions |->
                                user_interactions[k].rating_percent], v)

\* C9's case: the default evaluation of ratings in which a pair is rated
\* twice, with two values.
C9_Witness ==
    /\ IsEvaluation
    /\ ~result.ground_truth.given
    /\ \E pr \in RatedPairs :
        \E k, m \in RowsOfPair(pr) :
            user_interactions[k].rating_percent # user_interactions[m].rating_percent
    /\ Len(result.actuals) > Cardinality(RatedPairs)

SameCall(r, s) ==
    /\ r.op = s.op
    /\ r.username = s.username
    /\ r.category_id = s.category_id
    /\ r.ground_truth = s.ground_truth

\* C10: once the engine is built, a call of get_recommendations or
\* evaluate, failed or not, leaves the post feature table, the similarity
\* matrix, the factor matrices, the known ids and the interactions as they
\* were, and a call repeated returns what it returned before.
C10_ReadOnlyAfterInit ==
    [][pc = "ready" =>
        /\ engineState' = engineState
        /\ SameCall(result, result') => result' = result]_vars

\* C10's case: a call that failed on a built engine.
C10_Witness ==
    /\ pc = "ready"
    /\ IsRecommendation
    /\ result.status = "AttributeError"

====
